---- MODULE Spec2Model ----
(***************************************************************************)
(* Pandas-On-MovieLens-DB.ipynb: the notebook's code cells, run in order,  *)
(* as a state machine over the relations they build.                       *)
(*                                                                         *)
(* A relation is a sequence of rows; a row is a record.  Only the columns  *)
(* some cell reads are kept: users(user_id, age, sex), ratings(user_id,    *)
(* movie_id, rating), movies(movie_id, title).  A title is a natural       *)
(* number: the rank of the title string in lexicographic order, which is   *)
(* the order groupby('title') puts its keys in.  A float is an exact       *)
(* fraction in lowest terms [num, den]; NaN is [num |-> 0, den |-> 0].     *)
(***************************************************************************)
EXTENDS Integers, Sequences, FiniteSets, TLC

VARIABLES pc, users, ratings, movies, movie_ratings, lens, most_rated,
          value_counts, movie_stats, atleast_100, highest_rated, most_50,
          by_age, by_age_table, pivoted, disagreements

vars == <<pc, users, ratings, movies, movie_ratings, lens, most_rated,
          value_counts, movie_stats, atleast_100, highest_rated, most_50,
          by_age, by_age_table, pivoted, disagreements>>

(***************************************************************************)
(* Bounds of the inputs.                                                   *)
(***************************************************************************)
MaxRatings == 3

(***************************************************************************)
(* Sequences.                                                              *)
(***************************************************************************)
Range(s) == {s[i] : i \in 1..Len(s)}

\* s[:n]
Take(s, n) == SubSeq(s, 1, IF n < Len(s) THEN n ELSE Len(s))

RECURSIVE FlattenRange(_, _, _)
FlattenRange(ss, lo, hi) ==
  IF lo > hi THEN <<>>
  ELSE IF lo = hi THEN ss[lo]
  ELSE LET mid == (lo + hi) \div 2
       IN  FlattenRange(ss, lo, mid) \o FlattenRange(ss, mid + 1, hi)

Flatten(ss) == FlattenRange(ss, 1, Len(ss))

RECURSIVE SumRange(_, _, _)
SumRange(s, lo, hi) ==
  IF lo > hi THEN 0
  ELSE IF lo = hi THEN s[lo]
  ELSE LET mid == (lo + hi) \div 2
       IN  SumRange(s, lo, mid) + SumRange(s, mid + 1, hi)

Sum(s) == SumRange(s, 1, Len(s))

Least(a, b) == IF a < b THEN a ELSE b

Min(S) == CHOOSE x \in S : \A y \in S : x <= y

\* the elements of a set of integers in ascending order
RECURSIVE SortedKeys(_)
SortedKeys(S) ==
  IF S = {} THEN <<>> ELSE LET m == Min(S) IN <<m>> \o SortedKeys(S \ {m})

\* the distinct values of s in order of first appearance
Unique(s) ==
  LET first == {i \in 1..Len(s) : \A j \in 1..(i - 1) : s[j] # s[i]}
      pos == SortedKeys(first)
  IN  [k \in 1..Len(pos) |-> s[pos[k]]]

(***************************************************************************)
(* pd.merge: inner join on the one column the two frames share.            *)
(***************************************************************************)
\* a lookup: the first match of a left row only
FirstMatch(l, right, on) == Take(SelectSeq(right, LAMBDA r : r[on] = l[on]), 1)

\* the rows of the right frame with the key of the left row
Matches(l, right, on) == SelectSeq(right, LAMBDA r : r[on] = l[on])

\* the row of the merged frame: the columns of the left row, then those of the
\* right row that the left row lacks
JoinedRow(l, r) ==
  [f \in DOMAIN l \cup DOMAIN r |-> IF f \in DOMAIN l THEN l[f] ELSE r[f]]

\* one output row per matching pair, in the order of the left rows
MergeByLeftRows(left, right, on) ==
  Flatten([i \in 1..Len(left) |->
            LET m == Matches(left[i], right, on)
            IN  [j \in 1..Len(m) |-> JoinedRow(left[i], m[j])]])

\* one output row per matching pair, grouped by key, the keys in the order
\* they first appear on the left
MergeByLeftKeys(left, right, on) ==
  LET keys == Unique([i \in 1..Len(left) |-> left[i][on]])
      sorted == Flatten([k \in 1..Len(keys) |->
                          SelectSeq(left, LAMBDA l : l[on] = keys[k])])
  IN  MergeByLeftRows(sorted, right, on)

(***************************************************************************)
(* Inputs: the three tables read_csv loads.                                *)
(***************************************************************************)
User(id, age, sex) == [user_id |-> id, age |-> age, sex |-> sex]
Movie(id, title) == [movie_id |-> id, title |-> title]
Rating(user, movie, rating) == [user_id |-> user, movie_id |-> movie, rating |-> rating]

SeqsUpTo(S, n) == UNION {[1..k -> S] : k \in 0..n}

\* small tables: two users, of both sexes or of one; two movies, the titles in
\* the order of the ids, in the opposite order, or the same; every list of up
\* to MaxRatings ratings, one of which names a user and one a movie that the
\* other tables lack
SmallUsers ==
  {<<User(1, 29, "F"), User(2, 30, "M")>>,
   <<User(1, 29, "F"), User(2, 30, "F")>>,
   <<User(1, 29, "M"), User(2, 30, "M")>>}

SmallMovies ==
  {<<Movie(1, 1), Movie(2, 2)>>,
   <<Movie(1, 2), Movie(2, 1)>>,
   <<Movie(1, 1), Movie(2, 1)>>}

RatingRows ==
  {Rating(1, 1, 1), Rating(1, 1, 5), Rating(2, 1, 5), Rating(1, 2, 5),
   Rating(2, 2, 1), Rating(3, 1, 5), Rating(1, 3, 5)}

SmallRatings == SeqsUpTo(RatingRows, MaxRatings)

\* a user of every age, rating two movies another user rates too
MaxAge == 80

AgedUsers == {<<User(1, a, "F"), User(2, 30, "M")>> : a \in 0..MaxAge}

AgedMovies == <<Movie(1, 1), Movie(2, 2)>>

AgedRatings == <<Rating(1, 1, 5), Rating(2, 1, 1), Rating(1, 2, 5)>>

\* a catalogue: CatalogueCount(m) ratings of movie m, the first half of the
\* movies rated by one user and the rest by the other
CatalogueSize == 51

CatalogueCount(m) ==
  IF m <= 17 THEN 98 + m
  ELSE IF m = 18 \/ m = 19 THEN 1
  ELSE IF m = 43 THEN 27
  ELSE m - 17

CatalogueUsers == <<User(1, 29, "F"), User(2, 30, "M")>>

CatalogueMovies == [m \in 1..CatalogueSize |-> Movie(m, CatalogueSize + 1 - m)]

CatalogueRatings ==
  Flatten([m \in 1..CatalogueSize |->
            [k \in 1..CatalogueCount(m) |->
               Rating(IF 2 * m <= CatalogueSize THEN 1 ELSE 2, m,
                      IF k <= m THEN 5 ELSE 3)]])

(***************************************************************************)
(* Floats.                                                                 *)
(***************************************************************************)
Abs(x) == IF x < 0 THEN -x ELSE x

RECURSIVE GCD(_, _)
GCD(a, b) == IF b = 0 THEN a ELSE GCD(b, a % b)

Fraction(n, d) ==
  LET g == GCD(Abs(n), Abs(d)) IN [num |-> n \div g, den |-> d \div g]

NaN == [num |-> 0, den |-> 0]
Zero == [num |-> 0, den |-> 1]

IsNaN(x) == x.den = 0
Less(x, y) == x.num * y.den < y.num * x.den
\* the operands the wrong way round
MinusSwapped(x, y) == Fraction(y.num * x.den - x.num * y.den, x.den * y.den)

Minus(x, y) == Fraction(x.num * y.den - y.num * x.den, x.den * y.den)

\* the mean of a non-empty sequence of integers
Mean(s) == Fraction(Sum(s), Len(s))

(***************************************************************************)
(* Series and DataFrame operations the cells use.                          *)
(***************************************************************************)
Column(rows, col) == [i \in 1..Len(rows) |-> rows[i][col]]

\* groupby(col).size(): one entry per distinct key, the keys ascending
GroupBySize(rows, col) ==
  LET keys == SortedKeys(Range(Column(rows, col)))
  IN  [k \in 1..Len(keys) |->
        [key |-> keys[k],
         size |-> Len(SelectSeq(rows, LAMBDA r : r[col] = keys[k]))]]

\* the first row taken for a header
CountValuesSkipFirst(rows, col) ==
  LET keys == Unique(Column(rows, col))
  IN  [k \in 1..Len(keys) |->
        [key |-> keys[k],
         size |-> Len(SelectSeq(Tail(rows), LAMBDA r : r[col] = keys[k]))]]

\* Series.value_counts() before its sort: the keys in order of first appearance
CountValues(rows, col) ==
  LET keys == Unique(Column(rows, col))
  IN  [k \in 1..Len(keys) |->
        [key |-> keys[k],
         size |-> Len(SelectSeq(rows, LAMBDA r : r[col] = keys[k]))]]

\* ascending=False forgotten
RECURSIVE AscendingOrders(_, _)
AscendingOrders(v, I) ==
  IF I = {} THEN {<<>>}
  ELSE LET low == {i \in I : \A j \in I : v[i] <= v[j]}
       IN  UNION {{<<i>> \o t : t \in AscendingOrders(v, I \ {i})} : i \in low}

\* sort_values(ascending=False) with the default kind='quicksort', which is not
\* stable: every order of the positions I of v in which the values do not
\* increase
RECURSIVE DescendingOrders(_, _)
DescendingOrders(v, I) ==
  IF I = {} THEN {<<>>}
  ELSE LET top == {i \in I : \A j \in I : v[j] <= v[i]}
       IN  UNION {{<<i>> \o t : t \in DescendingOrders(v, I \ {i})} : i \in top}

SortValuesDescending(s, v) ==
  {[k \in 1..Len(s) |-> s[p[k]]] : p \in DescendingOrders(v, 1..Len(s))}

SortBySizeDescending(s) ==
  SortValuesDescending(s, [i \in 1..Len(s) |-> s[i].size])

\* groupby(col).agg({'rating': [np.size, np.mean]})
GroupByAgg(rows, col) ==
  LET keys == SortedKeys(Range(Column(rows, col)))
  IN  [k \in 1..Len(keys) |->
        LET g == SelectSeq(rows, LAMBDA r : r[col] = keys[k])
        IN  [key |-> keys[k], size |-> Len(g),
             mean |-> Mean(Column(g, "rating"))]]

\* > for >=
SizeAbove(stats, n) == [i \in 1..Len(stats) |-> stats[i].size > n]

\* stats['rating']['size'] >= n
SizeAtLeast(stats, n) == [i \in 1..Len(stats) |-> stats[i].size >= n]

\* frame[mask]: the rows whose mask entry is True
BooleanIndex(rows, mask) ==
  LET keep == SortedKeys({i \in 1..Len(rows) : mask[i]})
  IN  [k \in 1..Len(keep) |-> rows[keep[k]]]

SortByMeanDescending(s) ==
  SortValuesDescending(s,
    [i \in 1..Len(s) |-> Cardinality({j \in 1..Len(s) : Less(s[j].mean, s[i].mean)})])

\* pd.cut(x, range(0, 81, 10), right=False, labels=labels): the label of the bin
\* [bins[i], bins[i+1]) that holds x, NaN when no bin does
BinStart == 0
BinStop == 81
BinStep == 10

bins == [i \in 1..((BinStop - BinStart + BinStep - 1) \div BinStep) |->
          BinStart + (i - 1) * BinStep]

labels == <<"0-9", "10-19", "20-29", "30-39", "40-49", "50-59", "60-69", "70-79">>

NoLabel == "NaN"

\* right=False forgotten: the bins are (bins[i], bins[i+1]]
CutRight(x) ==
  LET hit == {i \in 1..(Len(bins) - 1) : bins[i] < x /\ x <= bins[i + 1]}
  IN  IF hit = {} THEN NoLabel ELSE labels[CHOOSE i \in hit : TRUE]

Cut(x) ==
  LET hit == {i \in 1..(Len(bins) - 1) : bins[i] <= x /\ x < bins[i + 1]}
  IN  IF hit = {} THEN NoLabel ELSE labels[CHOOSE i \in hit : TRUE]

WithAgeGroup(r) ==
  [movie_id |-> r.movie_id, title |-> r.title, user_id |-> r.user_id,
   rating |-> r.rating, age |-> r.age, sex |-> r.sex, age_group |-> Cut(r.age)]

\* the position of a value in the sort order of its column
Order(col, v) ==
  IF col = "sex" THEN (IF v = "F" THEN 1 ELSE 2)
  ELSE IF col = "age_group" THEN CHOOSE i \in 1..Len(labels) : labels[i] = v
  ELSE v

Front(s) == SubSeq(s, 1, Len(s) - 1)
Last(s) == s[Len(s)]
Remove(s, x) == SelectSeq(s, LAMBDA y : y # x)

\* the key of a row: its values in the key columns
KeyOf(r, cols) == [c \in 1..Len(cols) |-> r[cols[c]]]

KeyLess(cols, a, b) ==
  \E c \in 1..Len(cols) :
    /\ Order(cols[c], a[c]) < Order(cols[c], b[c])
    /\ \A d \in 1..(c - 1) : a[d] = b[d]

\* a set of keys in ascending lexicographic order
RECURSIVE SortedTuples(_, _)
SortedTuples(cols, S) ==
  IF S = {} THEN <<>>
  ELSE LET m == CHOOSE a \in S : \A b \in S : ~KeyLess(cols, b, a)
       IN  <<m>> \o SortedTuples(cols, S \ {m})

GroupOf(rows, cols, key) == SelectSeq(rows, LAMBDA r : KeyOf(r, cols) = key)

\* the groups of groupby(cols): the keys that occur in the rows
ObservedKeys(rows, cols) == {KeyOf(rows[i], cols) : i \in 1..Len(rows)}

\* the groups of groupby(cols) when the last column is categorical: every
\* category with every key of the other columns; rows without a category are
\* in no group
CategoricalKeys(rows, cols, categories) ==
  {Append(KeyOf(rows[i], Front(cols)), c) :
     i \in {j \in 1..Len(rows) : rows[j][Last(cols)] \in categories},
     c \in categories}

\* groupby(cols)[value].mean(): one entry per group, NaN for a group without rows
GroupByMean(rows, cols, value, keys) ==
  LET sorted == SortedTuples(cols, keys)
  IN  [k \in 1..Len(sorted) |->
        LET g == GroupOf(rows, cols, sorted[k])
        IN  [key |-> sorted[k],
             mean |-> IF g = <<>> THEN NaN ELSE Mean(Column(g, value))]]

\* a row of a wide table: its index values and its cells, by name
WideRow(index, key, cells) ==
  [f \in Range(index) \cup DOMAIN cells |->
    IF f \in DOMAIN cells THEN cells[f]
    ELSE key[CHOOSE c \in 1..Len(index) : index[c] = f]]

\* Series.unstack(level): the last key column becomes the columns; a cell whose
\* (row key, column key) pair has no entry is NaN
Unstack(long, cols) ==
  LET index == Front(cols)
      col == Last(cols)
      rowkeys == SortedTuples(index, {Front(long[i].key) : i \in 1..Len(long)})
      colkeys == SortedTuples(<<col>>, {<<Last(long[i].key)>> : i \in 1..Len(long)})
      columns == [c \in 1..Len(colkeys) |-> colkeys[c][1]]
      Cell(rk, ck) ==
        LET hit == {i \in 1..Len(long) : long[i].key = Append(rk, ck)}
        IN  IF hit = {} THEN NaN ELSE long[CHOOSE i \in hit : TRUE].mean
  IN  [index |-> index, columns |-> columns,
       data |-> [k \in 1..Len(rowkeys) |->
                  WideRow(index, rowkeys[k],
                          [ck \in Range(columns) |-> Cell(rowkeys[k], ck)])]]

\* DataFrame.fillna(value)
Fillna(frame, value) ==
  [frame EXCEPT !.data =
    [k \in 1..Len(frame.data) |->
      [f \in DOMAIN frame.data[k] |->
        IF f \in Range(frame.columns) /\ IsNaN(frame.data[k][f])
        THEN value ELSE frame.data[k][f]]]]

\* the fill value forgotten
PivotTableNoFill(rows, index, col, value, fill_value) ==
  LET rowkeys == SortedTuples(index, ObservedKeys(rows, index))
      colkeys == SortedTuples(<<col>>, ObservedKeys(rows, <<col>>))
      columns == [c \in 1..Len(colkeys) |-> colkeys[c][1]]
      Cell(rk, ck) ==
        LET g == SelectSeq(rows, LAMBDA r : KeyOf(r, index) = rk /\ r[col] = ck)
        IN  IF g = <<>> THEN NaN ELSE Mean(Column(g, value))
  IN  [index |-> index, columns |-> columns,
       data |-> [k \in 1..Len(rowkeys) |->
                  WideRow(index, rowkeys[k],
                          [ck \in Range(columns) |-> Cell(rowkeys[k], ck)])]]

\* DataFrame.pivot_table(index, columns=[col], values=value, fill_value), the
\* aggregate being the default mean: one row per index key, one column per
\* value of col, a cell without rows being fill_value
PivotTable(rows, index, col, value, fill_value) ==
  LET rowkeys == SortedTuples(index, ObservedKeys(rows, index))
      colkeys == SortedTuples(<<col>>, ObservedKeys(rows, <<col>>))
      columns == [c \in 1..Len(colkeys) |-> colkeys[c][1]]
      Cell(rk, ck) ==
        LET g == SelectSeq(rows, LAMBDA r : KeyOf(r, index) = rk /\ r[col] = ck)
        IN  IF g = <<>> THEN fill_value ELSE Mean(Column(g, value))
  IN  [index |-> index, columns |-> columns,
       data |-> [k \in 1..Len(rowkeys) |->
                  WideRow(index, rowkeys[k],
                          [ck \in Range(columns) |-> Cell(rowkeys[k], ck)])]]

\* frame[name] = values
WithColumn(frame, name, values) ==
  [frame EXCEPT
     !.columns = IF name \in Range(@) THEN @ ELSE Append(@, name),
     !.data = [k \in 1..Len(@) |->
                [f \in DOMAIN @[k] \cup {name} |->
                  IF f = name THEN values[k] ELSE @[k][f]]]]

\* frame.set_index(name, inplace=True) of a frame with the default index
SetIndex(frame, name) ==
  [frame EXCEPT !.index = <<name>>, !.columns = Remove(@, name)]

\* reset_index(drop=True): the index level is dropped
ResetIndexDrop(frame, name) == [frame EXCEPT !.index = Remove(@, name)]

\* frame.reset_index(name, inplace=True): the index level becomes the first column
ResetIndex(frame, name) ==
  [frame EXCEPT !.index = Remove(@, name), !.columns = <<name>> \o @]

\* values.isin(keys)
Isin(values, keys) == [i \in 1..Len(values) |-> values[i] \in Range(keys)]

\* frame.iloc[positions]: the rows at the 0-based positions, in their order
Iloc(rows, positions) == [k \in 1..Len(positions) |-> rows[positions[k] + 1]]

InBounds(rows, positions) ==
  \A k \in 1..Len(positions) : positions[k] < Len(rows)

\* the values of the series in place of its index
KeysAreValues(series) == [i \in 1..Len(series) |-> series[i].size]

Keys(series) == [i \in 1..Len(series) |-> series[i].key]

(***************************************************************************)
(* The limits the cells are written with.                                  *)
(***************************************************************************)
MostRatedN == 25
ValueCountsN == 25
MinSize == 100
HighestRatedN == 15
Most50N == 50

NoSeries == <<>>
NoFrame == [index |-> <<>>, columns |-> <<>>, data |-> <<>>]

Init ==
  /\ pc = "movie_ratings"
  /\ \/ /\ users \in SmallUsers
        /\ movies \in SmallMovies
        /\ ratings \in SmallRatings
     \/ /\ users \in AgedUsers
        /\ movies = AgedMovies
        /\ ratings = AgedRatings
     \/ /\ users = CatalogueUsers
        /\ movies = CatalogueMovies
        /\ ratings = CatalogueRatings
  /\ movie_ratings = <<>>
  /\ lens = NoFrame
  /\ most_rated = NoSeries
  /\ value_counts = NoSeries
  /\ movie_stats = <<>>
  /\ atleast_100 = NoSeries
  /\ highest_rated = <<>>
  /\ most_50 = NoSeries
  /\ by_age = <<>>
  /\ by_age_table = NoFrame
  /\ pivoted = NoFrame
  /\ disagreements = NoSeries

\* movie_ratings = pd.merge(movies, ratings)
MergeMoviesRatings ==
  /\ pc = "movie_ratings"
  /\ movie_ratings' = MergeByLeftRows(movies, ratings, "movie_id")
  /\ pc' = "lens"
  /\ UNCHANGED <<users, ratings, movies, lens, most_rated, value_counts,
                 movie_stats, atleast_100, highest_rated, most_50, by_age,
                 by_age_table, pivoted, disagreements>>

\* lens = pd.merge(movie_ratings, users); the rows come in the order of the left
\* rows or grouped by the left keys, depending on the pandas release
MergeUsers ==
  /\ pc = "lens"
  /\ \E data \in {MergeByLeftRows(movie_ratings, users, "user_id"),
                  MergeByLeftKeys(movie_ratings, users, "user_id")} :
       lens' = [index |-> <<>>,
                columns |-> <<"movie_id", "title", "user_id", "rating",
                              "age", "sex">>,
                data |-> data]
  /\ pc' = "most_rated"
  /\ UNCHANGED <<users, ratings, movies, movie_ratings, most_rated,
                 value_counts, movie_stats, atleast_100, highest_rated,
                 most_50, by_age, by_age_table, pivoted, disagreements>>

\* most_rated = lens.groupby('title').size().sort_values(ascending=False)[:25]
MostRated ==
  /\ pc = "most_rated"
  /\ \E sorted \in SortBySizeDescending(GroupBySize(lens.data, "title")) :
       most_rated' = Take(sorted, MostRatedN)
  /\ pc' = "value_counts"
  /\ UNCHANGED <<users, ratings, movies, movie_ratings, lens, value_counts,
                 movie_stats, atleast_100, highest_rated, most_50, by_age,
                 by_age_table, pivoted, disagreements>>

\* lens.title.value_counts()[:25]
ValueCounts ==
  /\ pc = "value_counts"
  /\ \E sorted \in SortBySizeDescending(CountValues(lens.data, "title")) :
       value_counts' = Take(sorted, ValueCountsN)
  /\ pc' = "movie_stats"
  /\ UNCHANGED <<users, ratings, movies, movie_ratings, lens, most_rated,
                 movie_stats, atleast_100, highest_rated, most_50, by_age,
                 by_age_table, pivoted, disagreements>>

\* movie_stats = lens.groupby('title').agg({'rating': [np.size, np.mean]})
MovieStats ==
  /\ pc = "movie_stats"
  /\ movie_stats' = GroupByAgg(lens.data, "title")
  /\ pc' = "atleast_100"
  /\ UNCHANGED <<users, ratings, movies, movie_ratings, lens, most_rated,
                 value_counts, atleast_100, highest_rated, most_50, by_age,
                 by_age_table, pivoted, disagreements>>

\* atleast_100 = movie_stats['rating']['size'] >= 100
AtLeast100 ==
  /\ pc = "atleast_100"
  /\ atleast_100' = SizeAtLeast(movie_stats, MinSize)
  /\ pc' = "highest_rated"
  /\ UNCHANGED <<users, ratings, movies, movie_ratings, lens, most_rated,
                 value_counts, movie_stats, highest_rated, most_50, by_age,
                 by_age_table, pivoted, disagreements>>

\* movie_stats[atleast_100].sort_values(by=[('rating', 'mean')], ascending=False)[:15]
HighestRated ==
  /\ pc = "highest_rated"
  /\ \E sorted \in SortByMeanDescending(BooleanIndex(movie_stats, atleast_100)) :
       highest_rated' = Take(sorted, HighestRatedN)
  /\ pc' = "most_50"
  /\ UNCHANGED <<users, ratings, movies, movie_ratings, lens, most_rated,
                 value_counts, movie_stats, atleast_100, most_50, by_age,
                 by_age_table, pivoted, disagreements>>

\* most_50 = lens.groupby('movie_id').size().sort_values(ascending=False)[:50]
Most50 ==
  /\ pc = "most_50"
  /\ \E sorted \in SortBySizeDescending(GroupBySize(lens.data, "movie_id")) :
       most_50' = Take(sorted, Most50N)
  /\ pc' = "age_group"
  /\ UNCHANGED <<users, ratings, movies, movie_ratings, lens, most_rated,
                 value_counts, movie_stats, atleast_100, highest_rated, by_age,
                 by_age_table, pivoted, disagreements>>

\* lens['age_group'] = pd.cut(lens.age, range(0, 81, 10), right=False, labels=labels)
AgeGroup ==
  /\ pc = "age_group"
  /\ lens' = [lens EXCEPT
                !.columns = Append(@, "age_group"),
                !.data = [i \in 1..Len(@) |-> WithAgeGroup(@[i])]]
  /\ pc' = "set_index"
  /\ UNCHANGED <<users, ratings, movies, movie_ratings, most_rated,
                 value_counts, movie_stats, atleast_100, highest_rated,
                 most_50, by_age, by_age_table, pivoted, disagreements>>

\* lens.set_index('movie_id', inplace=True)
LensSetIndex ==
  /\ pc = "set_index"
  /\ lens' = SetIndex(lens, "movie_id")
  /\ pc' = "by_age"
  /\ UNCHANGED <<users, ratings, movies, movie_ratings, most_rated,
                 value_counts, movie_stats, atleast_100, highest_rated,
                 most_50, by_age, by_age_table, pivoted, disagreements>>

\* by_age = lens.iloc[most_50.index].groupby(['title', 'age_group']); iloc raises
\* IndexError when a position is out of bounds, and the run stops
ByAge ==
  /\ pc = "by_age"
  /\ IF InBounds(lens.data, Keys(most_50))
     THEN /\ by_age' = Iloc(lens.data, Keys(most_50))
          /\ pc' = "by_age_table"
     ELSE /\ by_age' = by_age
          /\ pc' = "IndexError"
  /\ UNCHANGED <<users, ratings, movies, movie_ratings, lens, most_rated,
                 value_counts, movie_stats, atleast_100, highest_rated,
                 most_50, by_age_table, pivoted, disagreements>>

\* by_age.rating.mean().unstack(1).fillna(0)
ByAgeTable ==
  /\ pc = "by_age_table"
  /\ by_age_table' =
       LET cols == <<"title", "age_group">>
       IN  Fillna(Unstack(GroupByMean(by_age, cols, "rating",
                                      CategoricalKeys(by_age, cols, Range(labels))),
                          cols),
                  Zero)
  /\ pc' = "reset_index"
  /\ UNCHANGED <<users, ratings, movies, movie_ratings, lens, most_rated,
                 value_counts, movie_stats, atleast_100, highest_rated,
                 most_50, by_age, pivoted, disagreements>>

\* lens.reset_index('movie_id', inplace=True)
LensResetIndex ==
  /\ pc = "reset_index"
  /\ lens' = ResetIndex(lens, "movie_id")
  /\ pc' = "pivoted"
  /\ UNCHANGED <<users, ratings, movies, movie_ratings, most_rated,
                 value_counts, movie_stats, atleast_100, highest_rated,
                 most_50, by_age, by_age_table, pivoted, disagreements>>

\* pivoted = lens.pivot_table(index=['movie_id', 'title'], columns=['sex'],
\*                            values='rating', fill_value=0)
Pivoted ==
  /\ pc = "pivoted"
  /\ pivoted' = PivotTable(lens.data, <<"movie_id", "title">>, "sex", "rating", Zero)
  /\ pc' = "diff"
  /\ UNCHANGED <<users, ratings, movies, movie_ratings, lens, most_rated,
                 value_counts, movie_stats, atleast_100, highest_rated,
                 most_50, by_age, by_age_table, disagreements>>

\* pivoted['diff'] = pivoted.M - pivoted.F; a frame without an M or an F column
\* raises AttributeError, and the run stops
Diff ==
  /\ pc = "diff"
  /\ IF {"M", "F"} \subseteq Range(pivoted.columns)
     THEN /\ pivoted' = WithColumn(pivoted, "diff",
                          [k \in 1..Len(pivoted.data) |->
                            Minus(pivoted.data[k].M, pivoted.data[k].F)])
          /\ pc' = "pivoted_reset_index"
     ELSE /\ pivoted' = pivoted
          /\ pc' = "AttributeError"
  /\ UNCHANGED <<users, ratings, movies, movie_ratings, lens, most_rated,
                 value_counts, movie_stats, atleast_100, highest_rated,
                 most_50, by_age, by_age_table, disagreements>>

\* pivoted.reset_index('movie_id', inplace=True)
PivotedResetIndex ==
  /\ pc = "pivoted_reset_index"
  /\ pivoted' = ResetIndex(pivoted, "movie_id")
  /\ pc' = "disagreements"
  /\ UNCHANGED <<users, ratings, movies, movie_ratings, lens, most_rated,
                 value_counts, movie_stats, atleast_100, highest_rated,
                 most_50, by_age, by_age_table, disagreements>>

\* disagreements = pivoted[pivoted.movie_id.isin(most_50.index)]['diff']
Disagreements ==
  /\ pc = "disagreements"
  /\ disagreements' =
       LET rows == BooleanIndex(pivoted.data,
                                Isin(Column(pivoted.data, "movie_id"), Keys(most_50)))
       IN  [k \in 1..Len(rows) |-> [title |-> rows[k].title, diff |-> rows[k].diff]]
  /\ pc' = "done"
  /\ UNCHANGED <<users, ratings, movies, movie_ratings, lens, most_rated,
                 value_counts, movie_stats, atleast_100, highest_rated,
                 most_50, by_age, by_age_table, pivoted>>

Next ==
  \/ MergeMoviesRatings
  \/ MergeUsers
  \/ MostRated
  \/ ValueCounts
  \/ MovieStats
  \/ AtLeast100
  \/ HighestRated
  \/ Most50
  \/ AgeGroup
  \/ LensSetIndex
  \/ ByAge
  \/ ByAgeTable
  \/ LensResetIndex
  \/ Pivoted
  \/ Diff
  \/ PivotedResetIndex
  \/ Disagreements

Spec == Init /\ [][Next]_vars

(***************************************************************************)
(* Where the run is.                                                       *)
(***************************************************************************)
Cells ==
  <<"movie_ratings", "lens", "most_rated", "value_counts", "movie_stats",
    "atleast_100", "highest_rated", "most_50", "age_group", "set_index",
    "by_age", "by_age_table", "reset_index", "pivoted", "diff",
    "pivoted_reset_index", "disagreements", "done">>

\* the cell the run is at; a run that raised is still at the cell that raised
At ==
  LET cell == IF pc = "IndexError" THEN "by_age"
              ELSE IF pc = "AttributeError" THEN "diff"
              ELSE pc
  IN  CHOOSE i \in 1..Len(Cells) : Cells[i] = cell

CellOf(name) == CHOOSE i \in 1..Len(Cells) : Cells[i] = name

\* the statement named has been executed
Ran(name) == At > CellOf(name)

Count(rows, col, key) == Len(SelectSeq(rows, LAMBDA r : r[col] = key))

(***************************************************************************)
(* C1: the rows by_age groups are exactly the rows of lens whose movie_id  *)
(* is a key of most_50, in the order of the rows of lens.                  *)
(***************************************************************************)
RowsOfMost50 ==
  SelectSeq(lens.data, LAMBDA r : r.movie_id \in Range(Keys(most_50)))

C1_ByAgeIsMost50Rows == Ran("by_age") => by_age = RowsOfMost50

(***************************************************************************)
(* C2: movie_stats has one row per title of lens, with the number of its   *)
(* rows and the mean of their ratings; atleast_100 keeps a title exactly   *)
(* when its size is at least 100; the displayed result is the kept rows by *)
(* mean descending, cut to 15.  The spec's three ratings give, by          *)
(* movie_id, {10: 2, 4.0; 20: 1, 4.0}, and a threshold of 2 keeps 10.      *)
(***************************************************************************)
ScenarioRatings ==
  <<[user_id |-> 1, movie_id |-> 10, rating |-> 5],
    [user_id |-> 2, movie_id |-> 10, rating |-> 3],
    [user_id |-> 1, movie_id |-> 20, rating |-> 4]>>

ScenarioStats == GroupByAgg(ScenarioRatings, "movie_id")

C2_Scenario ==
  /\ ScenarioStats = <<[key |-> 10, size |-> 2, mean |-> [num |-> 4, den |-> 1]],
                       [key |-> 20, size |-> 1, mean |-> [num |-> 4, den |-> 1]]>>
  /\ Keys(BooleanIndex(ScenarioStats, SizeAtLeast(ScenarioStats, 2))) = <<10>>

Kept == {i \in 1..Len(movie_stats) : movie_stats[i].size >= 100}

C2_MovieStats ==
  Ran("movie_stats") =>
    /\ Range(Keys(movie_stats)) = Range(Column(lens.data, "title"))
    /\ \A i, j \in 1..Len(movie_stats) :
         movie_stats[i].key = movie_stats[j].key => i = j
    /\ \A i \in 1..Len(movie_stats) :
         LET g == SelectSeq(lens.data, LAMBDA r : r.title = movie_stats[i].key)
         IN  /\ movie_stats[i].size = Len(g)
             /\ movie_stats[i].mean.den > 0
             /\ movie_stats[i].mean.num * Len(g)
                  = Sum(Column(g, "rating")) * movie_stats[i].mean.den

C2_AtLeast100 ==
  Ran("atleast_100") =>
    /\ Len(atleast_100) = Len(movie_stats)
    /\ \A i \in 1..Len(movie_stats) : atleast_100[i] <=> i \in Kept

C2_HighestRated ==
  Ran("highest_rated") =>
    /\ Len(highest_rated) = Least(15, Cardinality(Kept))
    /\ Range(highest_rated) \subseteq {movie_stats[i] : i \in Kept}
    /\ \A i, j \in 1..Len(highest_rated) :
         i < j => /\ highest_rated[i] # highest_rated[j]
                  /\ ~Less(highest_rated[i].mean, highest_rated[j].mean)
    /\ \A i \in Kept :
         movie_stats[i] \notin Range(highest_rated) =>
           \A k \in 1..Len(highest_rated) :
             ~Less(highest_rated[k].mean, movie_stats[i].mean)

C2_GroupCountMeanThreshold ==
  C2_Scenario /\ C2_MovieStats /\ C2_AtLeast100 /\ C2_HighestRated

\* a title of 100 rows is kept, a title of 99 is not, and the cut to 15 leaves
\* a kept title out
C2_Witness ==
  /\ Ran("highest_rated")
  /\ \E i \in 1..Len(movie_stats) : movie_stats[i].size = 100
  /\ \E i \in 1..Len(movie_stats) : movie_stats[i].size = 99
  /\ Len(highest_rated) = 15
  /\ Cardinality(Kept) > 15

(***************************************************************************)
(* C3 as claimed: most_rated and most_50 are the first N (key, count)      *)
(* pairs by count descending, keys of equal count in group-key order.      *)
(***************************************************************************)
\* the one order of s by size descending that keeps equal sizes in place
StableBySizeDescending(s) ==
  CHOOSE t \in SortBySizeDescending(s) :
    \A i, j \in 1..Len(t) : (i < j /\ t[i].size = t[j].size) => t[i].key < t[j].key

C3_StableTopN ==
  /\ Ran("most_rated") =>
       most_rated = Take(StableBySizeDescending(GroupBySize(lens.data, "title")), 25)
  /\ Ran("most_50") =>
       most_50 = Take(StableBySizeDescending(GroupBySize(lens.data, "movie_id")), 50)

(***************************************************************************)
(* C3 amended: most_rated and most_50 hold min(N, number of distinct keys) *)
(* (key, count) pairs, count being the number of lens rows with the key,   *)
(* by count descending, and no key left out has a larger count than a key  *)
(* kept; keys of equal count come in any order.                            *)
(***************************************************************************)
TopN(series, col, n) ==
  LET keys == Range(Column(lens.data, col))
  IN  /\ Len(series) = Least(n, Cardinality(keys))
      /\ \A i \in 1..Len(series) :
           /\ series[i].key \in keys
           /\ series[i].size = Count(lens.data, col, series[i].key)
      /\ \A i, j \in 1..Len(series) :
           i < j => /\ series[i].key # series[j].key
                    /\ series[i].size >= series[j].size
      /\ \A k \in keys \ Range(Keys(series)) :
           LET count == Count(lens.data, col, k)
           IN  \A i \in 1..Len(series) : count <= series[i].size

C3_TopN ==
  /\ Ran("most_rated") => TopN(most_rated, "title", 25)
  /\ Ran("most_50") => TopN(most_50, "movie_id", 50)

\* both cuts leave a key out, and a key left out ties with a key kept
C3_Witness ==
  /\ Ran("most_50")
  /\ Len(most_rated) = 25
  /\ Len(most_50) = 50
  /\ \E k \in Range(Column(lens.data, "movie_id")) \ Range(Keys(most_50)) :
       Count(lens.data, "movie_id", k) = most_50[50].size
  /\ \E k \in Range(Column(lens.data, "title")) \ Range(Keys(most_rated)) :
       Count(lens.data, "title", k) = most_rated[25].size

(***************************************************************************)
(* C5: a row of lens with age a in 0..79 has the label of the decade of a, *)
(* labels[a div 10]; 29 is in '20-29' and 30 in '30-39'.                   *)
(***************************************************************************)
DecadeLabels ==
  <<"0-9", "10-19", "20-29", "30-39", "40-49", "50-59", "60-69", "70-79">>

C5_AgeGroupIsDecade ==
  /\ Cut(29) = "20-29"
  /\ Cut(30) = "30-39"
  /\ Ran("age_group") =>
       \A i \in 1..Len(lens.data) :
         lens.data[i].age \in 0..79 =>
           lens.data[i].age_group = DecadeLabels[(lens.data[i].age \div 10) + 1]

C5_Witness ==
  /\ Ran("age_group")
  /\ \E i, j \in 1..Len(lens.data) :
       /\ lens.data[i].age = 29 /\ lens.data[i].age_group = "20-29"
       /\ lens.data[j].age = 30 /\ lens.data[j].age_group = "30-39"

(***************************************************************************)
(* C4 as claimed: pivoted has one row per (movie_id, title) pair of lens;  *)
(* its M and F cells are the mean rating of the movie's rows of that sex,  *)
(* 0 when there are none; after line 400 every row has diff = M - F.       *)
(***************************************************************************)
Pairs == {<<lens.data[i].movie_id, lens.data[i].title>> : i \in 1..Len(lens.data)}

OneRowPerPair ==
  /\ Len(pivoted.data) = Cardinality(Pairs)
  /\ {<<pivoted.data[k].movie_id, pivoted.data[k].title>> : k \in 1..Len(pivoted.data)}
       = Pairs

\* the cell of the row is the mean of the ratings of lens that go into it
IsMeanCell(row, sex) ==
  LET g == SelectSeq(lens.data,
             LAMBDA r : r.movie_id = row.movie_id /\ r.title = row.title /\ r.sex = sex)
  IN  /\ sex \in DOMAIN row
      /\ IF g = <<>> THEN row[sex] = Zero
         ELSE /\ row[sex].den > 0
              /\ row[sex].num * Len(g) = Sum(Column(g, "rating")) * row[sex].den

IsDifference(row) ==
  /\ row.diff.den > 0
  /\ row.diff.num * row.M.den * row.F.den
       = (row.M.num * row.F.den - row.F.num * row.M.den) * row.diff.den

C4_PivotBySex ==
  /\ Ran("pivoted") =>
       /\ OneRowPerPair
       /\ \A k \in 1..Len(pivoted.data) :
            IsMeanCell(pivoted.data[k], "M") /\ IsMeanCell(pivoted.data[k], "F")
  /\ Ran("diff") => \A k \in 1..Len(pivoted.data) : IsDifference(pivoted.data[k])

(***************************************************************************)
(* C4 amended: pivoted has one row per (movie_id, title) pair of lens and  *)
(* one column per sex that occurs in lens; a cell is the mean rating of    *)
(* the movie's rows of that sex, 0 when there are none.  When both sexes   *)
(* occur, every row has diff = M - F after line 400, so a movie rated only *)
(* by female users has M = 0 and diff = -F; when one does not, line 400    *)
(* raises AttributeError and sets no diff.                                 *)
(***************************************************************************)
SexesOfLens == Range(Column(lens.data, "sex"))

C4_PivotByObservedSex ==
  /\ Ran("pivoted") =>
       /\ OneRowPerPair
       /\ Range(pivoted.columns) \ {"movie_id", "diff"} = SexesOfLens
       /\ \A k \in 1..Len(pivoted.data) :
            \A sex \in SexesOfLens : IsMeanCell(pivoted.data[k], sex)
  /\ Ran("diff") =>
       /\ SexesOfLens = {"F", "M"}
       /\ \A k \in 1..Len(pivoted.data) : IsDifference(pivoted.data[k])
  /\ pc = "AttributeError" =>
       /\ SexesOfLens # {"F", "M"}
       /\ "diff" \notin Range(pivoted.columns)

\* a movie rated by female users only, in a lens with male users
C4_Witness ==
  /\ Ran("diff")
  /\ \E k \in 1..Len(pivoted.data) :
       LET row == pivoted.data[k]
       IN  /\ \A i \in 1..Len(lens.data) :
                lens.data[i].movie_id = row.movie_id => lens.data[i].sex = "F"
           /\ row.M = Zero
           /\ row.F.num > 0
           /\ row.diff.num = -row.F.num
           /\ row.diff.den = row.F.den

(***************************************************************************)
(* C6: pivot_table(index, columns, values, mean, fill_value = 0) is the    *)
(* wide table that grouping by the index and the column, taking the mean,  *)
(* unstacking the column and filling the absent cells with 0 gives.        *)
(***************************************************************************)
PivotKeys == <<"movie_id", "title", "sex">>

GroupedUnstacked ==
  Fillna(Unstack(GroupByMean(lens.data, PivotKeys, "rating",
                             ObservedKeys(lens.data, PivotKeys)),
                 PivotKeys),
         Zero)

C6_PivotIsGroupByUnstack == At = CellOf("diff") => pivoted = GroupedUnstacked

\* a table with a filled cell
C6_Witness ==
  /\ pc = "diff"
  /\ \E k \in 1..Len(pivoted.data) :
       /\ {"F", "M"} \subseteq DOMAIN pivoted.data[k]
       /\ pivoted.data[k].M = Zero
       /\ pivoted.data[k].F # Zero

(***************************************************************************)
(* C7: disagreements holds exactly the rows of pivoted whose movie_id is a *)
(* key of most_50, in the order of pivoted, each with its diff: one entry  *)
(* per movie of most_50 and none for another movie.                        *)
(***************************************************************************)
InMost50 ==
  {i \in 1..Len(pivoted.data) :
     \E k \in 1..Len(most_50) : most_50[k].key = pivoted.data[i].movie_id}

C7_DisagreementsAreMost50 ==
  Ran("disagreements") =>
    /\ Len(disagreements) = Cardinality(InMost50)
    /\ \A i \in InMost50 :
         disagreements[Cardinality({j \in InMost50 : j <= i})]
           = [title |-> pivoted.data[i].title, diff |-> pivoted.data[i].diff]
    /\ \A k \in 1..Len(most_50) :
         Cardinality({i \in InMost50 : pivoted.data[i].movie_id = most_50[k].key}) = 1

\* a movie of pivoted is outside most_50
C7_Witness ==
  /\ Ran("disagreements")
  /\ Len(disagreements) = 50
  /\ \E i \in 1..Len(pivoted.data) : i \notin InMost50

(***************************************************************************)
(* C8: (movies join ratings) join users, which is lens, and movies join    *)
(* (ratings join users) hold the same rows, each as often; a rating whose  *)
(* movie or user is missing is in neither.                                 *)
(***************************************************************************)
RightAssociated ==
  MergeByLeftRows(movies, MergeByLeftRows(ratings, users, "user_id"), "movie_id")

Times(rows, row) == Len(SelectSeq(rows, LAMBDA r : r = row))

SameRows(a, b) ==
  /\ Len(a) = Len(b)
  /\ \A row \in Range(a) \cup Range(b) : Times(a, row) = Times(b, row)

Matched(r) ==
  /\ \E i \in 1..Len(movies) : movies[i].movie_id = r.movie_id
  /\ \E i \in 1..Len(users) : users[i].user_id = r.user_id

C8_JoinIsAssociative ==
  At = CellOf("most_rated") =>
    /\ SameRows(lens.data, RightAssociated)
    /\ Len(lens.data) = Len(SelectSeq(ratings, Matched))

\* a rating without a movie or a user is dropped, another is kept
C8_Witness ==
  /\ At = CellOf("most_rated")
  /\ Len(lens.data) > 0
  /\ \E i \in 1..Len(ratings) : ~Matched(ratings[i])

(***************************************************************************)
(* C9 as claimed: once produced, a relation is never changed in rows, row  *)
(* index or column set, but for lens at line 272, which adds age_group.    *)
(***************************************************************************)
SameFrame(a, b) ==
  /\ a.index = b.index
  /\ Range(a.columns) = Range(b.columns)
  /\ a.data = b.data

OthersUnchanged ==
  /\ users' = users
  /\ ratings' = ratings
  /\ movies' = movies
  /\ Ran("movie_ratings") => movie_ratings' = movie_ratings
  /\ Ran("most_rated") => most_rated' = most_rated
  /\ Ran("movie_stats") => movie_stats' = movie_stats
  /\ Ran("most_50") => most_50' = most_50

C9_OnlyAgeGroupMutates ==
  [][/\ OthersUnchanged
     /\ (Ran("lens") /\ pc # "age_group") => SameFrame(lens, lens')
     /\ Ran("pivoted") => SameFrame(pivoted, pivoted')]_vars

(***************************************************************************)
(* C9 amended: once produced, users, ratings, movies, movie_ratings,       *)
(* most_rated, movie_stats and most_50 are never changed.  lens is changed *)
(* in place at line 272 (age_group added), line 307 (movie_id moved from   *)
(* the columns to the row index) and line 378 (moved back), and pivoted at *)
(* line 400 (diff added) and line 410 (movie_id moved from the row index   *)
(* to the columns); none of these changes a value of a row.                *)
(***************************************************************************)
\* b is a with the column added, the values of a unchanged
ColumnAdded(a, b, name) ==
  /\ b.index = a.index
  /\ name \notin Range(a.columns)
  /\ Range(b.columns) = Range(a.columns) \cup {name}
  /\ Len(b.data) = Len(a.data)
  /\ \A i \in 1..Len(a.data) :
       /\ DOMAIN b.data[i] = DOMAIN a.data[i] \cup {name}
       /\ \A f \in DOMAIN a.data[i] : b.data[i][f] = a.data[i][f]

\* b is a with the column moved into the row index
IntoIndex(a, b, name) ==
  /\ name \in Range(a.columns)
  /\ Range(b.index) = Range(a.index) \cup {name}
  /\ Range(b.columns) = Range(a.columns) \ {name}
  /\ b.data = a.data

C9_MutationsInPlace ==
  [][/\ OthersUnchanged
     /\ Ran("lens") =>
          \/ SameFrame(lens, lens')
          \/ pc = "age_group" /\ ColumnAdded(lens, lens', "age_group")
          \/ pc = "set_index" /\ IntoIndex(lens, lens', "movie_id")
          \/ pc = "reset_index" /\ IntoIndex(lens', lens, "movie_id")
     /\ Ran("pivoted") =>
          \/ SameFrame(pivoted, pivoted')
          \/ pc = "diff" /\ ColumnAdded(pivoted, pivoted', "diff")
          \/ pc = "pivoted_reset_index" /\ IntoIndex(pivoted', pivoted, "movie_id")]_vars

\* every in-place change has been made
C9_Witness ==
  /\ pc = "done"
  /\ Len(lens.data) > 0
  /\ "age_group" \in Range(lens.columns)
  /\ lens.index = <<>>
  /\ pivoted.index = <<"title">>
  /\ {"movie_id", "diff"} \subseteq Range(pivoted.columns)

(***************************************************************************)
(* C10 as claimed: value_counts()[:25] and most_rated are the same         *)
(* sequence of (title, count) pairs.                                       *)
(***************************************************************************)
C10_SameSequence == Ran("value_counts") => value_counts = most_rated

(***************************************************************************)
(* C10 amended: value_counts()[:25] and most_rated have the same sequence  *)
(* of counts, each the number of lens rows of its title, and both hold     *)
(* every title whose count is larger than the last count; titles of equal  *)
(* count come in any order in either, and of those that tie at the cut     *)
(* each may keep different ones.                                           *)
(***************************************************************************)
C10_SameCounts ==
  Ran("value_counts") =>
    /\ Len(value_counts) = Len(most_rated)
    /\ \A i \in 1..Len(value_counts) :
         /\ value_counts[i].size = most_rated[i].size
         /\ value_counts[i].size = Count(lens.data, "title", value_counts[i].key)
         /\ most_rated[i].size = Count(lens.data, "title", most_rated[i].key)
    /\ \A i, j \in 1..Len(value_counts) :
         i # j => value_counts[i].key # value_counts[j].key
    /\ \A i \in 1..Len(most_rated) :
         most_rated[i].size > most_rated[Len(most_rated)].size =>
           most_rated[i].key \in Range(Keys(value_counts))

\* the two tie at the cut and keep different titles
C10_Witness ==
  /\ Ran("value_counts")
  /\ Len(most_rated) = 25
  /\ most_rated[25].key \notin Range(Keys(value_counts))
====
